---- MODULE Spec2Model ----
(***************************************************************************)
(* learning-tracker: the FSRS scheduling engine (fsrs.js) and the MCP tool *)
(* handlers that store topics and drive it (index.js).                     *)
(*                                                                         *)
(* Numbers.  JavaScript numbers are modelled as fixed-point integers in    *)
(* thousandths: the number x is the integer x * Day.  The clock counts     *)
(* thousandths of a day, so a duration in days and a fixed-point number of *)
(* days are the same integer.  Every product and quotient truncates to a   *)
(* thousandth (floor), as Date truncates to a millisecond.  null is Null,  *)
(* undefined is Undefined; the weights are positive, so no number of the   *)
(* engine is negative except inside updateDifficulty, before its clamp.    *)
(***************************************************************************)
EXTENDS Integers, Sequences, FiniteSets, TLC

\* One day on the model's clock, and the unit of every fixed-point number
\* (the source divides milliseconds by 1000 * 60 * 60 * 24).
Day == 1000

Null == -1
Undefined == -2

\* Infinity and NaN, above every finite number of the model.
Infinity == 2000000000
NaN == 2000000001

\* ToNumber of a value in arithmetic: null is 0.
Num(x) == IF x = Null THEN 0 ELSE x

--------------------------------------------------------------------------
\* Fixed-point arithmetic standing for the JavaScript operators * and /.

\* a * b, both fixed-point; exact floor of the real product.  Infinity
\* times 0 is NaN; no negative number meets Infinity in the engine.
Mul(a, b) ==
    IF a = NaN \/ b = NaN THEN NaN
    ELSE IF a = Infinity \/ b = Infinity
    THEN (IF a = 0 \/ b = 0 THEN NaN ELSE Infinity)
    ELSE (a \div Day) * b + ((a % Day) * b) \div Day

\* a + b
Add(a, b) ==
    IF a = NaN \/ b = NaN THEN NaN
    ELSE IF a = Infinity \/ b = Infinity THEN Infinity
    ELSE a + b

\* a / b, both fixed-point, b > 0; floor of the real quotient, computed one
\* decimal digit at a time so that no intermediate exceeds 32 bits.
Div(a, b) ==
    LET q0 == a \div b
        r0 == a % b
        d1 == (r0 * 10) \div b
        r1 == (r0 * 10) % b
        d2 == (r1 * 10) \div b
        r2 == (r1 * 10) % b
        d3 == (r2 * 10) \div b
    IN  q0 * Day + d1 * 100 + d2 * 10 + d3

\* Math.max and Math.min: NaN if an argument is NaN.
Max2(a, b) == IF a = NaN \/ b = NaN THEN NaN ELSE IF a >= b THEN a ELSE b
Min2(a, b) == IF a = NaN \/ b = NaN THEN NaN ELSE IF a <= b THEN a ELSE b

\* Math.exp(x): the Taylor series of e^x, summed to ExpTerms terms.
ExpTerms == 14

RECURSIVE ExpSum(_, _, _, _)
ExpSum(x, n, term, acc) ==
    IF n > ExpTerms \/ term = 0 THEN acc
    ELSE LET t == Mul(term, x) \div n
         IN  ExpSum(x, n + 1, t, acc + t)

MathExp(x) == ExpSum(x, 1, Day, Day)

\* Math.log(x), x > 0: halve or double x into [1, 2), then
\* ln m = 2 * (z + z^3/3 + z^5/5 + z^7/7) with z = (m - 1) / (m + 1);
\* 693 is ln 2 in thousandths.
RECURSIVE LnReduce(_, _)
LnReduce(x, k) ==
    IF x >= 2 * Day THEN LnReduce(x \div 2, k + 1)
    ELSE IF x < Day THEN LnReduce(x * 2, k - 1)
    ELSE <<x, k>>

MathLog(x) ==
    LET mk == LnReduce(x, 0)
        m  == mk[1]
        z  == Div(m - Day, m + Day)
        z2 == Mul(z, z)
        z3 == Mul(z, z2)
        z5 == Mul(z3, z2)
        z7 == Mul(z5, z2)
    IN  mk[2] * 693 + 2 * (z + z3 \div 3 + z5 \div 5 + z7 \div 7)

\* Math.pow(x, y) for x >= 0: e^(y ln x); x^0 = 1; 0^y is 0 for y > 0 and
\* Infinity for y < 0.
MathPow(x, y) ==
    IF y = 0 THEN Day
    ELSE IF x = 0 THEN (IF y < 0 THEN Infinity ELSE 0)
    ELSE MathExp(Mul(y, MathLog(x)))

--------------------------------------------------------------------------
\* fsrs.js: configuration.

\* DEFAULT_CONFIG: fifteen weights, target retrievability 0.9, at most 365 days.
DEFAULT_CONFIG ==
    [ weights |-> << 400, 600, 2400, 5800, 4930, 940, 860, 10,
                     1490, 140, 940, 2180, 50, 340, 1260 >>,
      target_retrievability |-> 900,
      maximum_interval_days |-> 365 * Day ]

\* Other contents of fsrs_config.json that loadConfig returns as they are:
\* a maximum interval of half a day, and seventeen weights whose w5 and w6
\* push the difficulty to both clamps, with a maximum interval of 30 days.
HalfDayConfig == [DEFAULT_CONFIG EXCEPT !.maximum_interval_days = Day \div 2]
SteepConfig ==
    [ weights |-> << 400, 600, 2400, 5800, 4930, 5000, 6000, 10,
                     1490, 140, 940, 2180, 50, 340, 1260, 800, 1300 >>,
      target_retrievability |-> 800,
      maximum_interval_days |-> 30 * Day ]

Configs == {DEFAULT_CONFIG, HalfDayConfig, SteepConfig}

\* weights[i] of a JavaScript array: undefined outside the array.
W(weights, i) ==
    IF i + 1 \in 1..Len(weights) THEN weights[i + 1] ELSE Undefined

\* x || d
OrElse(x, d) == IF x \in {Null, Undefined, 0} THEN d ELSE x

--------------------------------------------------------------------------
\* fsrs.js: the memory model.

\* R(t) = (1 + t / (9 S))^(-1); 0 when there is no positive stability.  A
\* negative t makes the base less than 1, zero or negative.
retrievability(stability, elapsedDays) ==
    LET base == Day + Div(elapsedDays, 9 * stability)
    IN  IF stability \in {Null, Undefined} \/ stability <= 0 THEN 0
        ELSE IF base = 0 THEN Infinity
        ELSE IF base < 0 THEN 0 - Div(Day, 0 - base)
        ELSE Div(Day, base)

\* nextInterval that forgets to subtract 1.
Mut_nextInterval(stability, targetRetrievability) ==
    Mul(9 * stability, Div(Day, targetRetrievability))

\* I = 9 S (1 / R_target - 1); 1 when there is no positive stability.  An
\* undefined stability makes the product NaN.
nextInterval(stability, targetRetrievability) ==
    IF stability = Null \/ (stability # Undefined /\ stability <= 0) THEN Day
    ELSE IF stability = Undefined THEN Undefined
    ELSE IF stability \in {NaN, Infinity} THEN stability
    ELSE Mul(9 * stability, Div(Day, targetRetrievability) - Day)

\* clamp that forgets the upper end.
Mut_clamp(value, min, max) == Max2(min, value)

clamp(value, min, max) == Max2(min, Min2(max, value))

initialStability(grade, weights) == W(weights, grade - 1)

initialDifficulty(grade, weights) ==
    LET d0 == W(weights, 4) - W(weights, 5) * (grade - 3)
    IN  clamp(d0, 1 * Day, 10 * Day)

updateDifficulty(currentDifficulty, grade, weights) ==
    LET w6 == W(weights, 6)
        w7 == W(weights, 7)
        meanDifficulty == W(weights, 4)
        delta == (0 - w6) * (grade - 3)
        newD == Num(currentDifficulty) + delta
        revertedD == newD + Mul(w7, meanDifficulty - newD)
    IN  clamp(revertedD, 1 * Day, 10 * Day)

\* The hard penalty and the easy bonus are computed and never used.
updateStabilitySuccess(stability, difficulty, R, grade, weights) ==
    LET w8 == W(weights, 8)
        w9 == W(weights, 9)
        w10 == W(weights, 10)
        hardPenalty == IF grade = 2 THEN OrElse(W(weights, 15), Day) ELSE Day
        easyBonus == IF grade = 4 THEN OrElse(W(weights, 16), Day) ELSE Day
        factor == Mul(Mul(Mul(MathExp(w8), 11 * Day - Num(difficulty)),
                          MathPow(Num(stability), 0 - w9)),
                      MathExp(Mul(w10, Day - R)) - Day)
    IN  Mul(Num(stability), Add(Day, factor))

\* updateStabilityFailure without its Math.min.
Mut_updateStabilityFailure(stability, difficulty, R, weights) ==
    Mul(Mul(Mul(W(weights, 11), MathPow(Num(difficulty), 0 - W(weights, 12))),
            MathPow(Num(stability) + Day, W(weights, 13)) - Day),
        MathExp(Mul(W(weights, 14), Day - R)))

updateStabilityFailure(stability, difficulty, R, weights) ==
    LET w11 == W(weights, 11)
        w12 == W(weights, 12)
        w13 == W(weights, 13)
        w14 == W(weights, 14)
        newStability == Mul(Mul(Mul(w11, MathPow(Num(difficulty), 0 - w12)),
                                MathPow(Num(stability) + Day, w13) - Day),
                            MathExp(Mul(w14, Day - R)))
    IN  Min2(newStability, Num(stability))

createDefaultFsrsState ==
    [ state |-> "new", stability |-> Null, difficulty |-> Null, due |-> Null,
      last_reviewed |-> Null, review_count |-> 0, lapses |-> 0 ]

\* reviewState that sends every failed review to learning.
Mut_reviewState(currentFsrs, grade) ==
    IF grade = 1 THEN "learning" ELSE "review"

\* processReview, the state tag: learning or review after the first review,
\* relearning or review after any other.
reviewState(currentFsrs, grade) ==
    IF currentFsrs.state = "new"
    THEN (IF grade = 1 THEN "learning" ELSE "review")
    ELSE (IF grade = 1 THEN "relearning" ELSE "review")

\* reviewLapses that forgets the lapse of a failed first review.
Mut_reviewLapses(currentFsrs, grade) ==
    IF currentFsrs.state # "new" /\ grade = 1
    THEN OrElse(currentFsrs.lapses, 0) + 1
    ELSE currentFsrs.lapses

\* processReview, the lapses: 1 after a failed first review, one more after
\* any other failed review, else as copied from the input.
reviewLapses(currentFsrs, grade) ==
    IF currentFsrs.state = "new"
    THEN (IF grade = 1 THEN 1 ELSE currentFsrs.lapses)
    ELSE (IF grade = 1 THEN OrElse(currentFsrs.lapses, 0) + 1
          ELSE currentFsrs.lapses)

\* reviewCount written as review_count || 1.
Mut_reviewCount(currentFsrs) == OrElse(currentFsrs.review_count, 1)

\* processReview, newState.review_count.
reviewCount(currentFsrs) == OrElse(currentFsrs.review_count, 0) + 1

\* reviewInterval that applies the one-day minimum before the maximum.
Mut_reviewInterval(stability, targetR, maxInterval) ==
    LET raw == nextInterval(stability, targetR)
    IN  IF raw \in {Undefined, NaN} THEN raw
        ELSE Min2(Max2(raw, 1 * Day), maxInterval)

\* processReview, the interval: at most maxInterval, then at least one day.
\* An undefined or NaN stability makes it NaN, here Undefined or NaN.
reviewInterval(stability, targetR, maxInterval) ==
    LET raw == nextInterval(stability, targetR)
    IN  IF raw \in {Undefined, NaN} THEN raw
        ELSE Max2(Min2(raw, maxInterval), 1 * Day)

\* processReview, elapsedDays and currentR: the retrievability of the state
\* at the time now, 0 without a stability.
currentRetrievability(currentFsrs, now) ==
    LET elapsedDays == IF currentFsrs.last_reviewed # Null
                       THEN now - currentFsrs.last_reviewed
                       ELSE 0
    IN  IF currentFsrs.stability \notin {Null, Undefined, 0}
        THEN retrievability(currentFsrs.stability, elapsedDays)
        ELSE 0

\* { ...object } that is the object itself and no copy.
Mut_spread(object) == object

\* let newState = { ...currentFsrs }: the object the spread makes, given the
\* object it copies.  A call's objects are "currentFsrs", the caller's, and
\* "fresh", the one made here.
spread(object) == "fresh"

\* processReview that makes the topic due at the time of the review.
Mut_processReview(currentFsrs, grade, config, now) ==
    LET weights == config.weights
        targetR == config.target_retrievability
        maxInterval == config.maximum_interval_days
        currentR == currentRetrievability(currentFsrs, now)
        isNew == currentFsrs.state = "new"
        stability ==
            IF isNew THEN initialStability(grade, weights)
            ELSE IF grade = 1
            THEN updateStabilityFailure(currentFsrs.stability,
                                        currentFsrs.difficulty, currentR, weights)
            ELSE updateStabilitySuccess(currentFsrs.stability,
                                        currentFsrs.difficulty, currentR, grade,
                                        weights)
        difficulty ==
            IF isNew THEN initialDifficulty(grade, weights)
            ELSE updateDifficulty(currentFsrs.difficulty, grade, weights)
        interval == reviewInterval(stability, targetR, maxInterval)
        threw == interval \in {Undefined, NaN}
        newState == spread("currentFsrs")
        copied == [currentFsrs |-> currentFsrs, fresh |-> currentFsrs]
        assigned ==
            [copied EXCEPT ![newState] =
                [ state |-> reviewState(currentFsrs, grade),
                  stability |-> stability,
                  difficulty |-> difficulty,
                  due |-> IF threw THEN currentFsrs.due ELSE now,
                  last_reviewed |-> now,
                  review_count |-> reviewCount(currentFsrs),
                  lapses |-> reviewLapses(currentFsrs, grade) ]]
    IN  [ threw |-> threw,
          fsrs |-> IF threw THEN currentFsrs ELSE assigned[newState],
          input |-> assigned.currentFsrs ]

\* processReview(currentFsrs, grade, config), read at the time now of its
\* new Date().  The result is [threw, fsrs, input]: toISOString throws a
\* RangeError on the invalid date that a NaN interval yields, after every
\* assignment but the one to newState.due, and then nothing is returned
\* (fsrs is the input as it was).  input is the content of the caller's
\* object when the call ends.
processReview(currentFsrs, grade, config, now) ==
    LET weights == config.weights
        targetR == config.target_retrievability
        maxInterval == config.maximum_interval_days
        currentR == currentRetrievability(currentFsrs, now)
        isNew == currentFsrs.state = "new"
        stability ==
            IF isNew THEN initialStability(grade, weights)
            ELSE IF grade = 1
            THEN updateStabilityFailure(currentFsrs.stability,
                                        currentFsrs.difficulty, currentR, weights)
            ELSE updateStabilitySuccess(currentFsrs.stability,
                                        currentFsrs.difficulty, currentR, grade,
                                        weights)
        difficulty ==
            IF isNew THEN initialDifficulty(grade, weights)
            ELSE updateDifficulty(currentFsrs.difficulty, grade, weights)
        interval == reviewInterval(stability, targetR, maxInterval)
        threw == interval \in {Undefined, NaN}
        newState == spread("currentFsrs")
        copied == [currentFsrs |-> currentFsrs, fresh |-> currentFsrs]
        assigned ==
            [copied EXCEPT ![newState] =
                [ state |-> reviewState(currentFsrs, grade),
                  stability |-> stability,
                  difficulty |-> difficulty,
                  due |-> IF threw THEN currentFsrs.due ELSE now + interval,
                  last_reviewed |-> now,
                  review_count |-> reviewCount(currentFsrs),
                  lapses |-> reviewLapses(currentFsrs, grade) ]]
    IN  [ threw |-> threw,
          fsrs |-> IF threw THEN currentFsrs ELSE assigned[newState],
          input |-> assigned.currentFsrs ]

\* A topic record that has no fsrs property (topic.fsrs is undefined).
NoFsrs ==
    [ state |-> "undefined", stability |-> Undefined, difficulty |-> Undefined,
      due |-> Undefined, last_reviewed |-> Undefined,
      review_count |-> Undefined, lapses |-> Undefined ]

\* overduePriority that adds the retrievability instead of its decay.
Mut_overduePriority(currentR) == 100 * Day + currentR * 100

\* notDuePriority without its floor at 0.
Mut_notDuePriority(daysUntilDue) == 40 * Day - daysUntilDue * 10

\* calculatePriority, the priority of an overdue topic.
overduePriority(currentR) == 100 * Day + (Day - currentR) * 100

\* calculatePriority, the priority of a topic that is not yet due.
notDuePriority(daysUntilDue) == Max2(0, 40 * Day - daysUntilDue * 10)

\* calculatePriority(topic), read at the time now of its new Date().  A
\* property the returned object does not have is Undefined.
calculatePriority(topic, now) ==
    LET fsrs == topic.fsrs
        daysUntilDue == fsrs.due - now
        elapsedDays == IF fsrs.last_reviewed # Null
                       THEN now - fsrs.last_reviewed
                       ELSE 0
        currentR == IF fsrs.stability \notin {Null, Undefined, 0}
                    THEN retrievability(fsrs.stability, elapsedDays)
                    ELSE 0
    IN  IF fsrs = NoFsrs
        THEN [ priority |-> 0, isOverdue |-> FALSE, retrievability |-> 1 * Day,
               daysOverdue |-> Undefined, daysUntilDue |-> Undefined ]
        ELSE IF fsrs.state = "new" \/ fsrs.due \in {Null, Undefined}
        THEN [ priority |-> 50 * Day, isOverdue |-> FALSE,
               retrievability |-> Null,
               daysOverdue |-> Undefined, daysUntilDue |-> Undefined ]
        ELSE IF daysUntilDue < 0
        THEN [ priority |-> overduePriority(currentR),
               isOverdue |-> TRUE, retrievability |-> currentR,
               daysOverdue |-> 0 - daysUntilDue, daysUntilDue |-> Undefined ]
        ELSE [ priority |-> notDuePriority(daysUntilDue),
               isOverdue |-> FALSE, retrievability |-> currentR,
               daysOverdue |-> Undefined, daysUntilDue |-> daysUntilDue ]

--------------------------------------------------------------------------
\* The engine driven by a caller: one topic's scheduling state, created by
\* createDefaultFsrsState and replaced by what processReview returns, under
\* a configuration read once, with the clock moving between the calls.

VARIABLES
    now,        \* the clock, in thousandths of a day
    config,     \* the configuration handed to processReview
    fsrs,       \* the topic's scheduling state
    reviews,    \* how many reviews were processed
    agains,     \* how many of them had grade 1
    waited,     \* whether the clock moved since the last review
    call,       \* the last review: processReview's arguments and result
    probe,      \* a processReview call whose result the caller drops
    prio,       \* a calculatePriority call: its arguments and result
    file,       \* learned_topics.jsonl: the topic records, one a line
    backups,    \* the backup directory: files [name, content]
    nextId,     \* the next identifier crypto.randomUUID() hands out
    resp,       \* the response to the last tool call
    trip        \* an interval computed for a target and the way back

engine == <<fsrs, reviews, agains, call, probe, prio>>
server == <<file, backups, nextId, resp>>
vars == <<now, config, waited, engine, server, trip>>

\* Bounds of the exploration.
MaxReviews == 3
MaxNow == 200000

Grades == 1..4
\* Grades outside {1,2,3,4} that a caller can pass.
BadGrades == {0, 5}
\* A failing and a passing grade, for calls whose result is only looked at.
ProbeGrades == {1, 3}

NoCall ==
    [ done |-> FALSE, input |-> createDefaultFsrsState, grade |-> 0, at |-> 0,
      threw |-> FALSE, out |-> createDefaultFsrsState,
      after |-> createDefaultFsrsState ]

NoPrio ==
    [ done |-> FALSE, topic |-> [fsrs |-> createDefaultFsrsState], at |-> 0,
      result |-> calculatePriority([fsrs |-> createDefaultFsrsState], 0) ]

\* No answer is waiting to be sent.
NoResp ==
    [ tool |-> "none", error |-> "", at |-> 0, id |-> 0, grade |-> 0,
      tag |-> "", topics |-> <<>>, state |-> "",
      selected |-> calculatePriority([fsrs |-> createDefaultFsrsState], 0),
      new_state |-> createDefaultFsrsState,
      before |-> [file |-> <<>>, backups |-> {}, nextId |-> 1] ]

\* No interval was computed.
NoTrip ==
    [ done |-> FALSE, stability |-> 0, targetR |-> 0, interval |-> 0,
      back |-> 0, atZero |-> 0 ]

\* The server is not running: an empty topics file, no backups.
NoServer ==
    /\ file = <<>>
    /\ backups = {}
    /\ nextId = 1
    /\ resp = NoResp

EngineInit ==
    /\ now = 0
    /\ config \in Configs
    /\ fsrs = createDefaultFsrsState
    /\ reviews = 0
    /\ agains = 0
    /\ waited = FALSE
    /\ call = NoCall
    /\ probe = NoCall
    /\ prio = NoPrio
    /\ NoServer
    /\ trip = NoTrip

\* Times the clock can show next: the topic's due time, the moment after
\* it, three days after it.  The first review is the origin of the clock.
NextTimes ==
    IF fsrs.due = Null THEN {}
    ELSE {t \in {fsrs.due, fsrs.due + 1, fsrs.due + 3 * Day} : t > now}

\* The caller holds no result that it only looks at.
Idle == probe = NoCall /\ prio = NoPrio

\* The clock moves; two moves in a row are one move.
Tick ==
    /\ Idle
    /\ ~waited
    /\ \E t \in NextTimes :
        /\ t <= MaxNow
        /\ now' = t
    /\ waited' = TRUE
    /\ UNCHANGED <<config, fsrs, reviews, agains, call, probe, prio, server, trip>>

\* The caller records a review with a valid grade and keeps the result.
Review ==
    /\ Idle
    /\ reviews < MaxReviews
    /\ \E grade \in Grades :
        \E r \in {processReview(fsrs, grade, config, now)} :
            /\ call' = [ done |-> TRUE, input |-> fsrs, grade |-> grade,
                         at |-> now, threw |-> r.threw, out |-> r.fsrs,
                         after |-> r.input ]
            /\ fsrs' = r.fsrs
            /\ reviews' = reviews + 1
            /\ agains' = agains + (IF grade = 1 THEN 1 ELSE 0)
    /\ waited' = FALSE
    /\ UNCHANGED <<now, config, probe, prio, server, trip>>

\* processReview called with a grade outside {1,2,3,4}; the caller looks at
\* the result and does not keep it.
ReviewBadGrade ==
    /\ Idle
    /\ \E grade \in BadGrades :
        \E r \in {processReview(fsrs, grade, config, now)} :
            probe' = [ done |-> TRUE, input |-> fsrs, grade |-> grade,
                       at |-> now, threw |-> r.threw, out |-> r.fsrs,
                   after |-> r.input ]
    /\ UNCHANGED <<now, config, fsrs, reviews, agains, waited, call, prio, server, trip>>

\* Scheduling states that are not new and lack a stability, a difficulty or
\* both: the topic's state as a file edited by hand can hold it.
CorruptInputs ==
    { [fsrs EXCEPT !.stability = Null], [fsrs EXCEPT !.difficulty = Null],
      [fsrs EXCEPT !.stability = Null, !.difficulty = Null] }

\* processReview called with a valid grade on such a state; the caller looks
\* at the result and does not keep it.
ReviewCorrupt ==
    /\ Idle
    /\ fsrs.state # "new"
    /\ \E input \in CorruptInputs, grade \in ProbeGrades :
        \E r \in {processReview(input, grade, config, now)} :
            probe' = [ done |-> TRUE, input |-> input, grade |-> grade,
                       at |-> now, threw |-> r.threw, out |-> r.fsrs,
                       after |-> r.input ]
    /\ UNCHANGED <<now, config, fsrs, reviews, agains, waited, call, prio, server, trip>>

\* processReview called once more with the arguments of the last review:
\* the same state object's content, grade and configuration.  The caller
\* looks at the result and does not keep it.
ReviewAgain ==
    /\ Idle
    /\ call.done
    /\ \E r \in {processReview(call.input, call.grade, config, now)} :
        probe' = [ done |-> TRUE, input |-> call.input, grade |-> call.grade,
                   at |-> now, threw |-> r.threw, out |-> r.fsrs,
                       after |-> r.input ]
    /\ UNCHANGED <<now, config, fsrs, reviews, agains, waited, call, prio, server, trip>>

\* How far the clock reads behind the last review when it was set back: a
\* moment, half a day.
ClockSteps == {1, Day \div 2}

\* processReview called with a valid grade while the clock reads earlier than
\* the state's last_reviewed; the caller looks at the result and does not
\* keep it.
ReviewClockBack ==
    /\ Idle
    /\ fsrs.state # "new"
    /\ \E back \in ClockSteps, grade \in ProbeGrades :
        \E r \in {processReview(fsrs, grade, config, fsrs.last_reviewed - back)} :
            probe' = [ done |-> TRUE, input |-> fsrs, grade |-> grade,
                       at |-> fsrs.last_reviewed - back, threw |-> r.threw,
                       out |-> r.fsrs, after |-> r.input ]
    /\ UNCHANGED <<now, config, fsrs, reviews, agains, waited, call, prio, server, trip>>

\* calculatePriority called while the clock reads earlier than the state's
\* last_reviewed.
PriorityClockBack ==
    /\ Idle
    /\ fsrs.state # "new"
    /\ \E back \in ClockSteps :
        prio' = [ done |-> TRUE, topic |-> [fsrs |-> fsrs],
                  at |-> fsrs.last_reviewed - back,
                  result |-> calculatePriority([fsrs |-> fsrs],
                                               fsrs.last_reviewed - back) ]
    /\ UNCHANGED <<now, config, fsrs, reviews, agains, waited, call, probe, server, trip>>

\* Topics calculatePriority can be handed: the topic with its scheduling
\* state, a topic that was never reviewed, a topic record without a
\* scheduling state, and one whose due date is missing.
PriorityInputs ==
    { [fsrs |-> fsrs], [fsrs |-> createDefaultFsrsState], [fsrs |-> NoFsrs],
      [fsrs |-> [fsrs EXCEPT !.due = Null]] }

Priority ==
    /\ Idle
    /\ \E topic \in PriorityInputs :
        prio' = [ done |-> TRUE, topic |-> topic, at |-> now,
                  result |-> calculatePriority(topic, now) ]
    /\ UNCHANGED <<now, config, fsrs, reviews, agains, waited, call, probe, server, trip>>

\* The caller is done with the result it looked at.
Forget ==
    /\ ~Idle
    /\ probe' = NoCall
    /\ prio' = NoPrio
    /\ UNCHANGED <<now, config, fsrs, reviews, agains, waited, call, server, trip>>

EngineNext ==
    \/ Tick
    \/ Review
    \/ ReviewBadGrade
    \/ ReviewCorrupt
    \/ ReviewClockBack
    \/ ReviewAgain
    \/ Priority
    \/ PriorityClockBack
    \/ Forget

EngineSpec == EngineInit /\ [][EngineNext]_vars

--------------------------------------------------------------------------
\* index.js: the topics file, its backups and the tool handlers.  A topic
\* record is [id, tags, fsrs]; its name, summary and timestamp are strings no
\* handler reads back.  JSON.stringify and JSON.parse take a record of
\* finite numbers, strings and nulls to itself, and leave a property that is
\* undefined absent, which is Undefined or NoFsrs here.

MAX_BACKUPS == 10

\* Bounds of the exploration: topics ever given an identifier, and reviews
\* logged for one topic ...
MaxIds == 2
MaxTopicReviews == 1
\* ... and times at which a run makes backups, and the last millisecond
\* of such a time that names one.
MaxBackupTimes == 1
MaxMs == 1
\* ... and the last time the clock shows between tool calls.
MaxServerNow == 3000

TagSets == {{}, {"a"}}
\* A tool call's optional tag: none, or one.
TagArgs == {"", "a"}

\* A line written before topics had identifiers and scheduling states.
LegacyTopic == [id |-> Undefined, tags |-> {}, fsrs |-> NoFsrs]

\* new Date().toISOString() names a backup to the millisecond.  The clock of
\* the model is coarser, so a name is the clock's time and the millisecond
\* within it; names sort as the times they spell.
Later(a, b) == a.at > b.at \/ (a.at = b.at /\ a.ms > b.ms)

\* new Date() when a handler starts at the time at: the millisecond of the
\* latest backup of this time, the first millisecond if there is none.
Reading(files, at) ==
    LET used == {b.name.ms : b \in {c \in files : c.name.at = at}}
    IN  [at |-> at,
         ms |-> IF used = {} THEN 0
                ELSE CHOOSE m \in used : \A n \in used : n <= m]

\* new Date() read again later in the same handler: the same millisecond or
\* the next one.
Again(stamp) == {stamp, [stamp EXCEPT !.ms = @ + 1]}

\* The cleanup of createBackup without its loop: no file is deleted.
Mut_cleanup(copied) == copied

\* The cleanup of createBackup: the names are sorted, latest first, and the
\* files after the first MAX_BACKUPS are deleted.
cleanup(copied) ==
    {b \in copied :
        Cardinality({c \in copied : Later(c.name, b.name)}) < MAX_BACKUPS}

\* createBackup at the time stamp: the topics file is copied to the file
\* named after the time, over any file of that name, and the old backups
\* are cleaned up.
createBackup(disk, stamp) ==
    LET copied == {b \in disk.backups : b.name # stamp}
                      \cup {[name |-> stamp, content |-> disk.file]}
    IN  [disk EXCEPT !.backups = cleanup(copied)]

\* atomicWriteTopics: the file holds exactly the topics.
atomicWriteTopics(disk, topics) == [disk EXCEPT !.file = topics]

\* loadTopics, the migration: a topic without an id gets a fresh one, a
\* topic without a scheduling state gets the default one.
RECURSIVE migrate(_, _)
migrate(lines, next) ==
    IF lines = <<>> THEN [topics |-> <<>>, next |-> next]
    ELSE LET topic == Head(lines)
             fresh == topic.id = Undefined
             withId == IF fresh THEN [topic EXCEPT !.id = next] ELSE topic
             migrated == IF topic.fsrs = NoFsrs
                         THEN [withId EXCEPT !.fsrs = createDefaultFsrsState]
                         ELSE withId
             rest == migrate(Tail(lines), IF fresh THEN next + 1 ELSE next)
         IN  [topics |-> <<migrated>> \o rest.topics, next |-> rest.next]

\* loadTopics: the topics of the file; a migration is backed up and written.
loadTopics(disk, stamp) ==
    LET m == migrate(disk.file, disk.nextId)
    IN  IF m.topics # disk.file
        THEN [ topics |-> m.topics,
               disk |-> atomicWriteTopics(
                            [createBackup(disk, stamp) EXCEPT !.nextId = m.next],
                            m.topics) ]
        ELSE [topics |-> m.topics, disk |-> disk]

\* findIndex that stops at the first topic whatever its id.
Mut_findIndex(topics, topicId) ==
    IF \E i \in 1..Len(topics) : topics[i].id = topicId THEN 1 ELSE 0

\* topics.findIndex(t => t.id === topicId), 0 for -1.
findIndex(topics, topicId) ==
    IF \E i \in 1..Len(topics) : topics[i].id = topicId
    THEN CHOOSE i \in 1..Len(topics) :
            /\ topics[i].id = topicId
            /\ \A j \in 1..(i - 1) : topics[j].id # topicId
    ELSE 0

\* updateTopic that makes its backup before it looks for the topic.
Mut_updateTopic(disk, topicId, grade, cfg, loadStamp, stamp) ==
    LET loaded == loadTopics(disk, loadStamp)
        topics == loaded.topics
        index == findIndex(topics, topicId)
        saved == createBackup(loaded.disk, stamp)
        r == processReview(topics[index].fsrs, grade, cfg, stamp.at)
        updated == [topics EXCEPT ![index].fsrs = r.fsrs]
    IN  IF index = 0
        THEN [ success |-> FALSE, error |-> "Topic not found",
               disk |-> saved, fsrs |-> createDefaultFsrsState ]
        ELSE IF r.threw
        THEN [ success |-> FALSE, error |-> "RangeError",
               disk |-> saved, fsrs |-> createDefaultFsrsState ]
        ELSE [ success |-> TRUE, error |-> "",
               disk |-> atomicWriteTopics(saved, updated), fsrs |-> r.fsrs ]

\* updateTopic(topicId, updater) with the updater of log_review_outcome,
\* which replaces the topic's scheduling state by processReview's result.
\* The topics are loaded at the time loadStamp and the backup is made at
\* the time stamp.  An exception of the updater leaves the backup made and
\* nothing written.
updateTopic(disk, topicId, grade, cfg, loadStamp, stamp) ==
    LET loaded == loadTopics(disk, loadStamp)
        topics == loaded.topics
        index == findIndex(topics, topicId)
        saved == createBackup(loaded.disk, stamp)
        r == processReview(topics[index].fsrs, grade, cfg, stamp.at)
        updated == [topics EXCEPT ![index].fsrs = r.fsrs]
    IN  IF index = 0
        THEN [ success |-> FALSE, error |-> "Topic not found",
               disk |-> loaded.disk, fsrs |-> createDefaultFsrsState ]
        ELSE IF r.threw
        THEN [ success |-> FALSE, error |-> "RangeError",
               disk |-> saved, fsrs |-> createDefaultFsrsState ]
        ELSE [ success |-> TRUE, error |-> "",
               disk |-> atomicWriteTopics(saved, updated), fsrs |-> r.fsrs ]

\* review_next_topic's sort by priority, highest first, written with the
\* lowest first.
Mut_insertByPriority(item, sorted) ==
    LET k == Cardinality({i \in 1..Len(sorted) :
                             sorted[i].result.priority <= item.result.priority})
    IN  SubSeq(sorted, 1, k) \o <<item>> \o SubSeq(sorted, k + 1, Len(sorted))

\* topicsWithPriority.sort((a, b) => b.priority - a.priority), a stable
\* sort: an item goes behind the items whose priority is not lower.
insertByPriority(item, sorted) ==
    LET k == Cardinality({i \in 1..Len(sorted) :
                             sorted[i].result.priority >= item.result.priority})
    IN  SubSeq(sorted, 1, k) \o <<item>> \o SubSeq(sorted, k + 1, Len(sorted))

RECURSIVE sortByPriority(_)
sortByPriority(items) ==
    IF items = <<>> THEN <<>>
    ELSE insertByPriority(items[Len(items)],
                          sortByPriority(SubSeq(items, 1, Len(items) - 1)))

\* topics.filter(t => t.tags?.includes(tag))
RECURSIVE filterByTag(_, _)
filterByTag(topics, tag) ==
    IF topics = <<>> THEN <<>>
    ELSE (IF tag \in Head(topics).tags THEN <<Head(topics)>> ELSE <<>>)
             \o filterByTag(Tail(topics), tag)

\* Math.round(x * 100) / 100
Round2(x) == ((x + 5) \div 10) * 10

Disk == [file |-> file, backups |-> backups, nextId |-> nextId]

\* The backups are within the bounds: the times since the clock showed 0 at
\* which they were made, and the milliseconds of their names.
Within(files) ==
    /\ Cardinality({b.name.at : b \in {c \in files : c.name.at >= 0}})
           <= MaxBackupTimes
    /\ \A b \in files : b.name.ms <= MaxMs

\* The handler leaves the files as disk says.
Store(disk) ==
    /\ file' = disk.file
    /\ backups' = disk.backups
    /\ nextId' = disk.nextId

ServerInit ==
    /\ now = 0
    /\ config = DEFAULT_CONFIG
    /\ waited = FALSE
    /\ fsrs = createDefaultFsrsState
    /\ reviews = 0
    /\ agains = 0
    /\ call = NoCall
    /\ probe = NoCall
    /\ prio = NoPrio
    /\ file \in {<<>>, <<LegacyTopic>>}
    /\ backups = {}
    /\ nextId = 1
    /\ resp = NoResp
    /\ trip = NoTrip

\* Times the clock can show next: a stored topic's due time, and the moment
\* after it.
ServerTimes ==
    UNION { {file[i].fsrs.due, file[i].fsrs.due + 1} :
              i \in {j \in 1..Len(file) :
                        file[j].fsrs.due \notin {Null, Undefined}} }

\* Time passes between two tool calls.
ServerTick ==
    /\ resp = NoResp
    /\ \E t \in ServerTimes :
        /\ t > now
        /\ t <= MaxServerNow
        /\ now' = t
    /\ UNCHANGED <<config, waited, engine, server, trip>>

\* The transport sends the handler's answer; the server then reads the
\* next request.
Deliver ==
    /\ resp # NoResp
    /\ resp' = NoResp
    /\ UNCHANGED <<now, config, waited, engine, trip, file, backups, nextId>>

\* append_topic with one topic: a line is appended, nothing is loaded.
AppendTopic ==
    /\ resp = NoResp
    /\ nextId <= MaxIds
    /\ \E tags \in TagSets :
        /\ file' = Append(file, [ id |-> nextId, tags |-> tags,
                                  fsrs |-> createDefaultFsrsState ])
        /\ resp' = [NoResp EXCEPT !.tool = "append_topic", !.at = now,
                                  !.id = nextId, !.before = Disk]
    /\ nextId' = nextId + 1
    /\ UNCHANGED <<now, config, waited, engine, trip, backups>>

\* get_topics with an optional tag and an optional limit.
GetTopics ==
    /\ resp = NoResp
    /\ \E tag \in TagArgs, limit \in {0, 1} :
        \E stamp \in {Reading(backups, now)} :
        \E loaded \in {loadTopics(Disk, stamp)} :
            LET tagged == IF tag # "" THEN filterByTag(loaded.topics, tag)
                          ELSE loaded.topics
                shown == IF limit # 0 /\ Len(tagged) > limit
                         THEN SubSeq(tagged, Len(tagged) - limit + 1,
                                     Len(tagged))
                         ELSE tagged
            IN  /\ Store(loaded.disk)
                /\ resp' = IF loaded.topics = <<>>
                           THEN [NoResp EXCEPT !.tool = "get_topics",
                                               !.at = now, !.tag = tag,
                                               !.before = Disk,
                                               !.error = "No topics logged yet"]
                           ELSE [NoResp EXCEPT !.tool = "get_topics",
                                               !.at = now, !.tag = tag,
                                               !.before = Disk,
                                               !.topics = shown]
    /\ UNCHANGED <<now, config, waited, engine, trip>>

\* clear_topics: a backup, then an empty file.
ClearTopics ==
    /\ resp = NoResp
    /\ \E stamp \in {Reading(backups, now)} :
       \E saved \in {createBackup(Disk, stamp)} :
        /\ Within(saved.backups)
        /\ Store([saved EXCEPT !.file = <<>>])
    /\ resp' = [NoResp EXCEPT !.tool = "clear_topics", !.at = now,
                              !.before = Disk]
    /\ UNCHANGED <<now, config, waited, engine, trip>>

\* review_next_topic with an optional tag: the first topic of the candidates
\* sorted by priority.  resp.topics are the candidates, resp.selected is the
\* priority computed for the topic returned.
ReviewNextTopic ==
    /\ resp = NoResp
    /\ \E tag \in TagArgs :
        \E stamp \in {Reading(backups, now)} :
        \E loaded \in {loadTopics(Disk, stamp)} :
        \E topics \in {IF tag # "" THEN filterByTag(loaded.topics, tag)
                       ELSE loaded.topics} :
        \E topicsWithPriority \in
               {[i \in 1..Len(topics) |->
                    [topic |-> topics[i],
                     result |-> calculatePriority(topics[i], now)]]} :
        \E sorted \in {sortByPriority(topicsWithPriority)} :
            LET call0 == [NoResp EXCEPT !.tool = "review_next_topic",
                                        !.at = now, !.tag = tag,
                                        !.before = Disk]
            IN  /\ Store(loaded.disk)
                /\ resp' = IF loaded.topics = <<>>
                           THEN [call0 EXCEPT !.error = "No topics available"]
                           ELSE IF topics = <<>>
                           THEN [call0 EXCEPT !.error = "No topics with tag"]
                           ELSE [call0 EXCEPT
                                    !.topics = topics,
                                    !.id = sorted[1].topic.id,
                                    !.state = sorted[1].topic.fsrs.state,
                                    !.selected = sorted[1].result]
    /\ UNCHANGED <<now, config, waited, engine, trip>>

\* log_review_outcome with an id and a grade: a grade outside {1,2,3,4} is
\* answered before anything is loaded; else the configuration is loaded and
\* the topic updated.
LogReviewOutcome ==
    /\ resp = NoResp
    /\ \E id \in 0..(nextId - 1), grade \in Grades \cup BadGrades :
        LET call0 == [NoResp EXCEPT !.tool = "log_review_outcome", !.at = now,
                                    !.id = id, !.grade = grade,
                                    !.before = Disk]
        IN  IF grade \notin Grades
            THEN /\ resp' = [call0 EXCEPT !.error = "Invalid grade"]
                 /\ UNCHANGED <<file, backups, nextId>>
            ELSE \E loadStamp \in {Reading(backups, now)} :
                 \E stamp \in IF loadTopics(Disk, loadStamp).disk = Disk
                              THEN {loadStamp} ELSE Again(loadStamp) :
                 \E result \in {updateTopic(Disk, id, grade, config,
                                             loadStamp, stamp)} :
                 /\ Within(result.disk.backups)
                 /\ \A i \in 1..Len(file) :
                       file[i].id = id /\ file[i].fsrs # NoFsrs
                           => file[i].fsrs.review_count < MaxTopicReviews
                 /\ Store(result.disk)
                 /\ resp' = IF result.success
                            THEN [call0 EXCEPT
                                    !.state = result.fsrs.state,
                                    !.new_state =
                                        [result.fsrs EXCEPT
                                            !.stability = Round2(@),
                                            !.difficulty = Round2(@)]]
                            ELSE [call0 EXCEPT !.error = result.error]
    /\ UNCHANGED <<now, config, waited, engine, trip>>

ServerNext ==
    \/ ServerTick
    \/ AppendTopic
    \/ GetTopics
    \/ ClearTopics
    \/ ReviewNextTopic
    \/ LogReviewOutcome
    \/ Deliver

ServerSpec == ServerInit /\ [][ServerNext]_vars

\* The backup directory after n earlier changes of a file that held no
\* topic, made before the clock showed 0.
OldBackups(n) ==
    {[name |-> [at |-> 0 - k, ms |-> 0], content |-> <<>>] : k \in 1..n}

\* The server starts with a backup directory that is one file short of
\* MAX_BACKUPS, or one file over it.
BackupInit ==
    /\ now = 0
    /\ config = DEFAULT_CONFIG
    /\ waited = FALSE
    /\ fsrs = createDefaultFsrsState
    /\ reviews = 0
    /\ agains = 0
    /\ call = NoCall
    /\ probe = NoCall
    /\ prio = NoPrio
    /\ file = <<>>
    /\ backups \in {OldBackups(MAX_BACKUPS - 1), OldBackups(MAX_BACKUPS + 1)}
    /\ nextId = 1
    /\ resp = NoResp
    /\ trip = NoTrip

BackupSpec == BackupInit /\ [][ServerNext]_vars

--------------------------------------------------------------------------
\* The memory model's two formulas applied one after the other: the interval
\* for a stability and a target retrievability, and the retrievability of
\* that stability after that interval and after no time at all.

\* Stabilities from a tenth of a day to a year, and targets from 0.01 to
\* 0.999.
TripStabilities == {100, 400, 600, 2400, 5800, 36500, 100000, 365000}
TripTargets == {10, 100, 500, 700, 800, 900, 990, 999}

FormulaInit ==
    /\ now = 0
    /\ config = DEFAULT_CONFIG
    /\ fsrs = createDefaultFsrsState
    /\ reviews = 0
    /\ agains = 0
    /\ waited = FALSE
    /\ call = NoCall
    /\ probe = NoCall
    /\ prio = NoPrio
    /\ NoServer
    /\ \E stability \in TripStabilities, targetR \in TripTargets :
        trip = [NoTrip EXCEPT !.stability = stability, !.targetR = targetR]

RoundTrip ==
    /\ ~trip.done
    /\ \E interval \in {nextInterval(trip.stability, trip.targetR)} :
        trip' = [trip EXCEPT
                    !.done = TRUE,
                    !.interval = interval,
                    !.back = retrievability(trip.stability, interval),
                    !.atZero = retrievability(trip.stability, 0)]
    /\ UNCHANGED <<now, config, waited, engine, server>>

FormulaNext == RoundTrip

FormulaSpec == FormulaInit /\ [][FormulaNext]_vars

--------------------------------------------------------------------------
\* Properties of the engine, checked under EngineSpec.

\* The last calculatePriority call was handed the topic as it is scheduled.
PrioOfTopic ==
    /\ prio.done
    /\ prio.topic.fsrs = fsrs
    /\ fsrs.state # "new"
    /\ fsrs.due # Null

\* C1: a review with a grade in {1,2,3,4} returns the tag of the transition
\* table: from new, grade 1 gives learning and any other grade review; from
\* learning, review or relearning, grade 1 gives relearning and any other
\* grade review.  The tag new is never returned, and learning only from new.
C1_TransitionTable ==
    call.done =>
        /\ ~call.threw
        /\ call.input.state = "new" /\ call.grade = 1
              => call.out.state = "learning"
        /\ call.input.state = "new" /\ call.grade \in {2, 3, 4}
              => call.out.state = "review"
        /\ call.input.state \in {"learning", "review", "relearning"}
              /\ call.grade = 1
              => call.out.state = "relearning"
        /\ call.input.state \in {"learning", "review", "relearning"}
              /\ call.grade \in {2, 3, 4}
              => call.out.state = "review"
        /\ call.out.state # "new"
        /\ call.out.state = "learning" => call.input.state = "new"

\* A failed review of a topic that is relearning was processed.
C1_Witness ==
    /\ call.done
    /\ call.input.state = "relearning"
    /\ call.grade = 1
    /\ call.out.state = "relearning"

\* C2: once the state is not new, stability and difficulty are not null and
\* the difficulty lies in [1, 10].
C2_DifficultyRange ==
    fsrs.state # "new" =>
        /\ fsrs.stability \notin {Null, Undefined}
        /\ fsrs.difficulty \notin {Null, Undefined}
        /\ fsrs.difficulty >= 1 * Day
        /\ fsrs.difficulty <= 10 * Day

\* The difficulty was clamped at the lower end by the first review and at
\* the upper end by the next.
C2_Witness ==
    /\ call.done
    /\ call.input.state # "new"
    /\ call.input.difficulty = 1 * Day
    /\ fsrs.difficulty = 10 * Day

\* C3: after n processed reviews review_count is n.
C3_ReviewCount == fsrs.review_count = reviews

\* Three reviews were processed, failed and passed ones.
C3_Witness ==
    /\ reviews = 3
    /\ agains = 1
    /\ fsrs.review_count = 3

\* C4: lapses is the number of grade-1 reviews so far; a review with grade 1
\* raises it by exactly 1 and any other review leaves it unchanged.
C4_Lapses ==
    /\ fsrs.lapses = agains
    /\ call.done =>
          call.out.lapses
              = call.input.lapses + (IF call.grade = 1 THEN 1 ELSE 0)

\* A failed first review, a passed one and another failed one.
C4_Witness ==
    /\ reviews = 3
    /\ call.done
    /\ call.grade = 1
    /\ call.input.state = "review"
    /\ call.input.lapses = 1
    /\ fsrs.lapses = 2

\* C5 as stated: last_reviewed is the review time and due lies between 1 day
\* and maximum_interval_days days after it.
C5_DueWithinMaximum ==
    call.done =>
        /\ call.out.last_reviewed = call.at
        /\ call.out.due - call.at >= 1 * Day
        /\ call.out.due - call.at <= config.maximum_interval_days

\* C5, amended: last_reviewed is the review time and due is never less than
\* 1 day after it; it is never more than maximum_interval_days days after it
\* when that maximum is at least 1 day, and exactly 1 day after it when the
\* maximum is less than 1 day.
C5_DueClamped ==
    call.done =>
        /\ call.out.last_reviewed = call.at
        /\ call.out.due - call.at >= 1 * Day
        /\ config.maximum_interval_days >= 1 * Day
              => call.out.due - call.at <= config.maximum_interval_days
        /\ config.maximum_interval_days < 1 * Day
              => call.out.due - call.at = 1 * Day

\* A review whose interval the maximum of 30 days cut short.
C5_Witness ==
    /\ call.done
    /\ config.maximum_interval_days = 30 * Day
    /\ nextInterval(call.out.stability, config.target_retrievability)
          > config.maximum_interval_days
    /\ call.out.due = call.at + 30 * Day

\* C6: calculatePriority returns exactly priority 50, not overdue,
\* retrievability null when the topic has no scheduling state, when its
\* state is new, and when its due date is null, whatever the time.
C6_UnscheduledPriority ==
    prio.done /\ ( \/ prio.topic.fsrs = NoFsrs
                   \/ prio.topic.fsrs.state = "new"
                   \/ prio.topic.fsrs.due = Null )
        => prio.result = [ priority |-> 50 * Day, isOverdue |-> FALSE,
                           retrievability |-> Null,
                           daysOverdue |-> Undefined,
                           daysUntilDue |-> Undefined ]

\* C7: for a scheduled topic and a time not before its last review, the
\* priority lies in one of two bands.  After the due time the topic is
\* overdue and the priority is in [100, 200]; at or before it the topic is
\* not overdue and the priority is max(0, 40 - 10 * daysUntilDue), which is
\* in [0, 40], 40 when the topic is due now and 0 when it is due in 4 days
\* or more.
C7_PriorityBands ==
    PrioOfTopic /\ prio.at >= fsrs.last_reviewed =>
        LET r == prio.result
            d == fsrs.due - prio.at
        IN  /\ prio.at > fsrs.due =>
                /\ r.isOverdue
                /\ r.priority >= 100 * Day
                /\ r.priority <= 200 * Day
            /\ prio.at <= fsrs.due =>
                /\ ~r.isOverdue
                /\ r.priority = (IF 10 * d < 40 * Day THEN 40 * Day - 10 * d
                                 ELSE 0)
                /\ r.priority >= 0
                /\ r.priority <= 40 * Day
                /\ d = 0 => r.priority = 40 * Day
                /\ d >= 4 * Day => r.priority = 0

\* The priority of a topic was computed at the moment it is due.
C7_Witness ==
    /\ PrioOfTopic
    /\ prio.at = fsrs.due
    /\ ~prio.result.isOverdue
    /\ prio.result.priority = 40 * Day

\* How far apart two times are taken when priorities are compared, and how
\* far a priority may be from its exact value.
LaterGap == 30 * Day
PriorityTolerance == 500

C10_BadGradeRejected ==
    (probe.done /\ probe.grade \in BadGrades) => probe.threw

\* C11: processReview on a state that is not new and whose stability or
\* difficulty is null signals an error and returns no scheduling state.
C11_CorruptStateRejected ==
    ( /\ probe.done
      /\ probe.grade \in Grades
      /\ probe.input.state # "new"
      /\ probe.input.stability = Null \/ probe.input.difficulty = Null )
        => probe.threw

\* C12: a call made while the clock reads earlier than last_reviewed signals
\* an error, and no retrievability that processReview uses or that
\* calculatePriority returns is greater than 1.
C12_NegativeElapsedRejected ==
    /\ (probe.done /\ probe.input.last_reviewed # Null
            /\ probe.at < probe.input.last_reviewed)
           => probe.threw
    /\ probe.done => currentRetrievability(probe.input, probe.at) <= 1 * Day
    /\ (prio.done /\ prio.result.retrievability # Null)
           => prio.result.retrievability <= 1 * Day

\* C14: two processReview calls with the same state, grade and configuration
\* return the same result.
C14_SameArgumentsSameResult ==
    ( /\ call.done
      /\ probe.done
      /\ probe.input = call.input
      /\ probe.grade = call.grade )
        => probe.out = call.out /\ probe.threw = call.threw

\* C15: processReview leaves every field of the state object it is given as
\* it was, and returns another object.
C15_InputNotMutated ==
    /\ call.done => call.after = call.input
    /\ probe.done => probe.after = probe.input

\* A review returned a state that differs from the one it was given.
C15_Witness ==
    /\ call.done
    /\ ~call.threw
    /\ call.input.state # "new"
    /\ call.out # call.input
    /\ call.after = call.input

\* How far, in thousandths, a retrievability computed in thousandths may be
\* from the target.
RoundTripTolerance == 2

\* C16: the retrievability of a stability after nextInterval(stability,
\* targetR) is targetR within the tolerance, and after no time it is 1.
C16_IntervalInvertsRetrievability ==
    trip.done =>
        /\ trip.back - trip.targetR <= RoundTripTolerance
        /\ trip.targetR - trip.back <= RoundTripTolerance
        /\ trip.atZero = 1 * Day

\* The round trip for the default target and a stability of 2.4 days.
C16_Witness ==
    /\ trip.done
    /\ trip.stability = 2400
    /\ trip.targetR = 900
    /\ trip.interval > 0
    /\ trip.back < 1 * Day

\* C13: a review with grade 1 of a state that is not new returns a
\* stability that is not greater than the stability before the review.
C13_LapseNeverIncreasesStability ==
    (call.done /\ ~call.threw /\ call.grade = 1 /\ call.input.state # "new")
        => /\ call.out.stability <= call.input.stability
           /\ call.out.stability =
                  updateStabilityFailure(
                      call.input.stability, call.input.difficulty,
                      currentRetrievability(call.input, call.at),
                      config.weights)

\* A lapse whose formula gives more than the stability before the review,
\* which the review therefore keeps.
C13_Witness ==
    /\ call.done
    /\ call.grade = 1
    /\ call.input.state # "new"
    /\ call.input.stability > 0
    /\ call.out.stability = call.input.stability

\* C21: in every state reached from createDefaultFsrsState by reviews with
\* grades 1 to 4 the state is new exactly when review_count is 0, and then
\* due and last_reviewed are null; the state is learning only with a
\* review_count of 1 and 1 lapse; lapses is at most review_count; and a
\* state that is not new is due later than it was last reviewed.
C21_FieldsConsistent ==
    /\ (fsrs.state = "new") <=> (fsrs.review_count = 0)
    /\ fsrs.state = "new" => fsrs.due = Null /\ fsrs.last_reviewed = Null
    /\ fsrs.state = "learning"
          => fsrs.review_count = 1 /\ fsrs.lapses = 1
    /\ fsrs.lapses <= fsrs.review_count
    /\ fsrs.state # "new"
          => /\ fsrs.last_reviewed # Null
             /\ fsrs.due # Null
             /\ fsrs.due > fsrs.last_reviewed

\* Three failed reviews: as many lapses as reviews, and a due time at the
\* one-day minimum after the last review.
C21_Witness ==
    /\ call.done
    /\ fsrs = call.out
    /\ fsrs.state = "relearning"
    /\ fsrs.review_count = 3
    /\ fsrs.lapses = 3
    /\ fsrs.due = fsrs.last_reviewed + Day

--------------------------------------------------------------------------
\* Properties of the server, checked under ServerSpec.

\* A topic is new or unscheduled, overdue, or scheduled and not yet due.
IsNewOrUnscheduled(topic) ==
    \/ topic.fsrs = NoFsrs
    \/ topic.fsrs.state = "new"
    \/ topic.fsrs.due \in {Null, Undefined}

IsOverdueAt(topic, at) ==
    ~IsNewOrUnscheduled(topic) /\ topic.fsrs.due < at

IsNotYetDueAt(topic, at) ==
    ~IsNewOrUnscheduled(topic) /\ topic.fsrs.due >= at

\* review_next_topic has answered with a topic.
ReviewNextAnswered == resp.tool = "review_next_topic" /\ resp.error = ""

\* The candidates of the answered call: the stored topics, or those
\* carrying the requested tag.
Candidates ==
    { file[i] : i \in {j \in 1..Len(file) :
                          resp.tag = "" \/ resp.tag \in file[j].tags} }

Returned == CHOOSE topic \in Candidates : topic.id = resp.id

\* C9: the topic review_next_topic returns is a candidate; it is overdue if
\* any candidate is overdue; otherwise it is new or unscheduled if any
\* candidate is; it is scheduled and not yet due only when every candidate
\* is; and its priority is not lower than any candidate's.
C9_OverdueThenNewThenNotDue ==
    ReviewNextAnswered =>
        /\ \E topic \in Candidates : topic.id = resp.id
        /\ (\E c \in Candidates : IsOverdueAt(c, resp.at))
               => IsOverdueAt(Returned, resp.at)
        /\ ( /\ \A c \in Candidates : ~IsOverdueAt(c, resp.at)
             /\ \E c \in Candidates : IsNewOrUnscheduled(c) )
               => IsNewOrUnscheduled(Returned)
        /\ IsNotYetDueAt(Returned, resp.at)
               => \A c \in Candidates : IsNotYetDueAt(c, resp.at)
        /\ \A c \in Candidates :
               calculatePriority(c, resp.at).priority <= resp.selected.priority
        /\ resp.selected = calculatePriority(Returned, resp.at)

\* An overdue topic is returned although it is stored after a candidate
\* that is not overdue.
C9_Witness ==
    /\ ReviewNextAnswered
    /\ IsOverdueAt(Returned, resp.at)
    /\ \E i, j \in 1..Len(file) :
        /\ i < j
        /\ file[j] = Returned
        /\ file[i] \in Candidates
        /\ ~IsOverdueAt(file[i], resp.at)

\* C10, the handler: log_review_outcome with a grade outside {1,2,3,4}
\* answers with an error and leaves the topics file and the backups alone.
C10_HandlerScreens ==
    [][ (resp'.tool = "log_review_outcome" /\ resp'.grade \notin Grades)
            => /\ resp'.error = "Invalid grade"
               /\ UNCHANGED <<file, backups, nextId>> ]_vars

\* A handler that makes backups has answered and the topics file is not
\* what it was when the handler started.
ChangedBy(tools) == resp.tool \in tools /\ file # resp.before.file

\* The load of the call migrated the file the handler found.
LoadMigrated == migrate(resp.before.file, resp.before.nextId).topics
                    # resp.before.file

\* C17: when log_review_outcome or clear_topics has changed the topics
\* file, the backup directory holds, as the handler returns, a backup whose
\* content is the file as the handler found it.
C17_BackupOfContentBefore ==
    ChangedBy({"log_review_outcome", "clear_topics"})
        => \E b \in backups : b.content = resp.before.file

\* The same for the calls whose load found nothing to migrate.
C17_WithoutMigration ==
    (ChangedBy({"log_review_outcome", "clear_topics"}) /\ ~LoadMigrated)
        => \E b \in backups : b.content = resp.before.file

\* The same for the calls whose second backup got a later name than the
\* first.
C17_WithLaterName ==
    (ChangedBy({"log_review_outcome", "clear_topics"})
        /\ \E b \in backups : b.name.at = resp.at /\ b.name.ms > 0)
        => \E b \in backups : b.content = resp.before.file

\* The scheduling state stored for the topic id, NoFsrs if there is none.
StoredFsrs(topics, id) ==
    IF \E i \in 1..Len(topics) : topics[i].id = id
    THEN topics[CHOOSE i \in 1..Len(topics) : topics[i].id = id].fsrs
    ELSE NoFsrs

\* The identifiers of the topics that had a scheduling state when the
\* handler started and are still stored.
Scheduled ==
    {id \in 1..MaxIds + 1 :
        /\ StoredFsrs(resp.before.file, id) # NoFsrs
        /\ \E i \in 1..Len(file) : file[i].id = id}

\* C18: append_topic stores a topic in the state new with stability,
\* difficulty, due and last_reviewed null and both counters zero; and a
\* topic that had a scheduling state before a call has the same one after
\* it unless the call was a successful log_review_outcome for its id.
C18_StateChangedOnlyByOwnReview ==
    /\ resp.tool = "append_topic"
         => /\ Len(file) = Len(resp.before.file) + 1
            /\ file[Len(file)].id = resp.id
            /\ file[Len(file)].fsrs =
                   [ state |-> "new", stability |-> Null, difficulty |-> Null,
                     due |-> Null, last_reviewed |-> Null,
                     review_count |-> 0, lapses |-> 0 ]
    /\ resp.tool # "none"
         => \A id \in Scheduled :
               StoredFsrs(file, id) # StoredFsrs(resp.before.file, id)
                   => /\ resp.tool = "log_review_outcome"
                      /\ resp.error = ""
                      /\ resp.id = id

\* A successful log_review_outcome for one topic while another topic that
\* was reviewed earlier is stored.
C18_Witness ==
    /\ resp.tool = "log_review_outcome"
    /\ resp.error = ""
    /\ StoredFsrs(file, resp.id) # StoredFsrs(resp.before.file, resp.id)
    /\ \E id \in Scheduled :
          /\ id # resp.id
          /\ StoredFsrs(file, id).review_count > 0
          /\ StoredFsrs(file, id) = StoredFsrs(resp.before.file, id)

\* log_review_outcome has answered a call with a valid grade and an id that
\* no topic of the file had.
UnknownId ==
    /\ resp.tool = "log_review_outcome"
    /\ resp.grade \in Grades
    /\ \A i \in 1..Len(resp.before.file) : resp.before.file[i].id # resp.id

\* C19: log_review_outcome with a valid grade and an id that matches no
\* stored topic answers "Topic not found" and leaves every stored
\* scheduling state as it was; the files are as the load left them, that
\* is unchanged, or migrated with the one backup of the file as it was.
C19_UnknownIdChangesNothing ==
    UnknownId
        => /\ resp.error = "Topic not found"
           /\ \A id \in Scheduled :
                 StoredFsrs(file, id) = StoredFsrs(resp.before.file, id)
           /\ ~LoadMigrated
                 => file = resp.before.file /\ backups = resp.before.backups
           /\ LoadMigrated
                 => /\ file = migrate(resp.before.file,
                                      resp.before.nextId).topics
                    /\ Cardinality(backups \ resp.before.backups) = 1
                    /\ \A b \in backups \ resp.before.backups :
                          b.content = resp.before.file

\* The call found a reviewed topic stored under another id.
C19_Witness ==
    /\ UnknownId
    /\ resp.error = "Topic not found"
    /\ \E i \in 1..Len(file) : file[i].fsrs.review_count > 0

--------------------------------------------------------------------------
\* Properties of the backup directory.

\* The handler that has answered called createBackup.
BackupMade ==
    \/ resp.tool = "clear_topics"
    \/ resp.tool = "log_review_outcome" /\ resp.error \in {"", "RangeError"}
    \/ /\ resp.tool \in {"get_topics", "review_next_topic"}
       /\ LoadMigrated
    \/ resp.tool = "log_review_outcome" /\ resp.grade \in Grades
           /\ LoadMigrated

\* The backups the handler found whose names are gone.
Removed ==
    {b \in resp.before.backups : \A c \in backups : c.name # b.name}

====
